---- MODULE Spec2Model ----
(***************************************************************************)
(* Authentication core of SveltyCMS: the session and token stores of the   *)
(* MongoDB adapter, the Drizzle adapter and the Auth class, and the        *)
(* role/permission resolver of permissionCheck.ts.                         *)
(*                                                                         *)
(* Every storage call (one await in the source) is one atomic step; the    *)
(* wall clock (Date.now(), CURRENT_TIMESTAMP) is the variable now, which   *)
(* may advance between any two steps of a call.                            *)
(***************************************************************************)
EXTENDS Integers, FiniteSets, Sequences, TLC

\* ---------------------------------------------------------------- bounds
MaxTime == 3
MaxTTL == 2

Adapters == {"mongo", "drizzle", "auth"}
UserIds == {"u1", "u2"}
SessionIdPool == {1}
SessCallers == {"v1"}
TokenAdapters == {"mongo", "drizzle"}
TokenPool == {1}
TokenUsers == {"u1", "u2"}
TokenTypes == {"invite", "reset"}
TokCallers == {"c1", "c2"}
TTLs == 0..MaxTTL

\* PermissionType.SYSTEM
SYSTEM == "system"
\* the permission documents of the Registry
PermissionDocs ==
    {[_id |-> "p1", action |-> "read", contextType |-> "collection"],
     [_id |-> "p2", action |-> "read", contextType |-> SYSTEM]}
PermIds == {d._id : d \in PermissionDocs}
\* role names the Registry may hold, and the roles users carry
RegistryRoles == {"admin", "editor"}
\* role names as they can be stored, case included
RoleNames == {"admin", "Admin", "editor"}
\* a user carries a role and direct grants (permission ids)
PermUsers == [role : {"admin", "editor", "viewer"}, permissions : {{}, {"p1"}}]
Configs ==
    [contextId : PermIds, action : {"read", "update"},
     contextType : {"collection", "user"}, requiredRole : {"admin", "editor", "none"}]
PermCallers == {"k1"}
RaceCallers == PermCallers \cup {"k2"}

\* the Registry of the MongoDB adapter: permission documents, stored users,
\* acting principals ("nobody" is stored nowhere), callers
RegistryDocs ==
    {[_id |-> "m1", action |-> "manage_roles"],
     [_id |-> "m2", action |-> "manage_permissions"]}
RegPermIds == {d._id : d \in RegistryDocs}
RegUserIds == {"root", "eve"}
RegPrincipals == RegUserIds \cup {"nobody"}
RegCallers == {"r1"}

\* the user store: emails, plaintext passwords, ids, concurrent callers
Emails == {"a@x", "b@x"}
Passwords == {"pw"}
UserIdPool == {1, 2, 3}
UserCallers == {"a1", "a2"}
LoginPasswords == Passwords \cup {"bad"}

\* connect: the attempt counts and retry delays tried
MaxAttempts == 5
MaxDelay == 2
UserAdapters == {"mongo", "drizzle", "auth"}

VARIABLES
    adapter,      \* which implementation serves the calls
    now,          \* the wall clock
    users,        \* ids of the stored User records
    sessions,     \* the session store: records [id, user_id, expires] (+ history)
    nextSid,      \* the next fresh session id
    vs,           \* the validateSession calls in flight, per caller
    ret,          \* the last completed session operation and its result
    eq,           \* the same calls served by both adapters: stores and results
    tokens,       \* the token store: records [token, user_id, type, expires] (+ history)
    nextTok,      \* the next fresh token string
    tk,           \* the validateToken / consumeToken calls in flight, per caller
    wins,         \* history: per token, how many consumeToken calls obtained it
    authAdapter,  \* whether the authAdapter binding of the permission check is set
    roles,        \* the Registry: role name -> ids of the permissions it holds
    permissions,  \* the Set of registered permission ids
    rolePermissionCache,  \* role name -> the cached permission set
    pk,           \* the checkUserPermission calls in flight, per caller
    decision,     \* the last decision of checkUserPermission on a resolved set
    regUsers,     \* the Registry's users: user id -> [roles, permissions] (ids)
    permissionModel,  \* the Registry's permission documents
    rc,           \* the Registry mutation calls in flight, per caller
    outdated,     \* history: roles whose cache entry predates a completed write
    userDocs,     \* the user store: records [id, email, password]
    nextUid,      \* the next fresh user id
    uc,           \* the createUser / addUser calls in flight, per caller
    lg,           \* the last login call and its outcome
    cn,           \* the MongoDBAdapter.connect call
    blocked       \* the blocked field of each user record

sessVars == <<users, sessions, nextSid, vs, ret, eq>>
tokVars == <<tokens, nextTok, tk, wins>>
permVars == <<authAdapter, roles, permissions, rolePermissionCache, pk>>
regVars == <<regUsers, permissionModel, rc, outdated>>
userVars == <<userDocs, nextUid, uc, lg>>
restVars == <<decision, regVars, userVars, cn, blocked>>
vars == <<adapter, now, sessVars, tokVars, permVars, restVars>>

\* ------------------------------------------------------------ the clock
Tick ==
    /\ now < MaxTime
    /\ now' = now + 1
    /\ UNCHANGED <<adapter, sessVars, tokVars, permVars, restVars>>

\* ------------------------------------------------------- session store
SessionIds == 1..(nextSid - 1)

\* findById / select ... where id = sid
FindSession(sid) == {s \in sessions : s.id = sid}

\* expires: { $gt: new Date() } / expires > CURRENT_TIMESTAMP
Unexpired(s, t) == s.expires > t

\* expires: { $lte: new Date() } / expires <= CURRENT_TIMESTAMP
Expired(s, t) == s.expires <= t

\* (mutant) the ttl taken as the expiry instant itself
ExpiryOf_NoNow(t, ttl) == ttl

\* new Date(Date.now() + sessionData.expires)
ExpiryOf(t, ttl) == t + ttl

getActiveSessions(u) == {s \in sessions : s.user_id = u /\ Unexpired(s, now)}

\* what a session operation hands back to its caller
Raise(message) == [kind |-> "raise", message |-> message]
Void == [kind |-> "void"]
Undefined == [kind |-> "undefined"]
Null == [kind |-> "null"]
Count(n) == [kind |-> "number", value |-> n]

\* the Session value returned: convertToSession / toObject name the fields
\* session_id, user_id, expires; the Drizzle adapter returns the row of the
\* sessions table as it is (id, userId, expires)
SessionView(a, s) ==
    IF a = "drizzle"
    THEN [kind |-> "session", id |-> s.id, userId |-> s.user_id, expires |-> s.expires]
    ELSE [kind |-> "session", session_id |-> s.id, user_id |-> s.user_id,
          expires |-> s.expires]

\* the fields of the User value returned: user.toObject(), the row of the
\* users table, and for Auth the document after delete user._id
ReturnedFields(a) ==
    IF a = "mongo" THEN {"_id", "email", "password", "role"}
    ELSE IF a = "drizzle" THEN {"id", "email", "password", "role"}
    ELSE {"email", "password", "role"}

\* History in a session record: instant (the expiry createSession gave it),
\* updated (updateSessionExpiry has touched it), owner (the user createSession
\* was called for), nulled (a validateSession found the record expired and
\* answered null).
NewSession(id, u, t, ttl) ==
    [id |-> id, user_id |-> u, expires |-> ExpiryOf(t, ttl),
     instant |-> t + ttl, updated |-> FALSE, owner |-> u, nulled |-> FALSE]

Create(a, S, id, u, t, ttl) ==
    [store |-> S \cup {NewSession(id, u, t, ttl)},
     res |-> SessionView(a, NewSession(id, u, t, ttl))]

SetExpires_Rebind(s, e) == [s EXCEPT !.expires = e, !.updated = TRUE, !.user_id = "u2"]

\* { $set: { expires: newExpiryDate } } / .set({ expires: ... })
SetExpires(s, e) == [s EXCEPT !.expires = e, !.updated = TRUE]

\* findByIdAndUpdate(session_id, ...) then throw 'Session not found' on no
\* document; update ... where id = ? returning, whose first row may be missing
UpdateExpiry(a, S, sid, t, ttl) ==
    LET S2 == {IF s.id = sid THEN SetExpires(s, ExpiryOf(t, ttl)) ELSE s : s \in S}
    IN  IF \A s \in S : s.id # sid
        THEN [store |-> S,
              res |-> IF a = "mongo" THEN Raise("Session not found") ELSE Undefined]
        ELSE [store |-> S2, res |-> SessionView(a, CHOOSE s \in S2 : s.id = sid)]

DeleteResult_Strict(matched) == IF matched = {} THEN Raise("Session not found") ELSE Void

\* deleteOne / deleteMany / delete ... where: whatever matched, nothing is raised
DeleteResult(matched) == Void

Destroy(S, sid) ==
    LET matched == {s \in S : s.id = sid}
    IN  [store |-> S \ matched, res |-> DeleteResult(matched)]

\* deleteMany({ user_id }) / delete ... where user_id = ?; Auth finds the
\* user's sessions and deletes each by id
Invalidate(S, u) ==
    LET matched == {s \in S : s.user_id = u}
    IN  [store |-> S \ matched, res |-> DeleteResult(matched)]

\* deleteMany({ expires: { $lte: new Date() } }) returns deletedCount.  The
\* Drizzle statement asks RETURNING count(*): the database either rejects the
\* statement, deleting nothing, or deletes and the first returned row (none when
\* nothing was deleted) carries the count.
DeleteExpired(a, S, t) ==
    LET gone == {s \in S : Expired(s, t)}
    IN  IF a = "mongo"
        THEN {[store |-> S \ gone, res |-> Count(Cardinality(gone))]}
        ELSE {[store |-> S, res |-> Raise("count(*) in RETURNING")],
              [store |-> S \ gone,
               res |-> IF gone = {} THEN Undefined ELSE Count(Cardinality(gone))]}

ActiveSessions(a, S, u, t) ==
    [store |-> S,
     res |-> [kind |-> "sessions",
              value |-> {SessionView(a, s) : s \in {x \in S : x.user_id = u /\ Unexpired(x, t)}}]]

\* the last session operation that completed and what it returned.  History:
\* again (the operation before it was the same call), missing (no record
\* matched), valid (the session was present and unexpired), unchanged (the
\* store was left as it was)
NoReturn ==
    [op |-> "none", sid |-> 0, user |-> "", res |-> Void, again |-> FALSE,
     missing |-> FALSE, valid |-> FALSE, unchanged |-> FALSE]

\* the session records as the store holds them, history left out
Stored(S) == {[id |-> s.id, user_id |-> s.user_id, expires |-> s.expires] : s \in S}

SessionReturn(op, sid, u, out) ==
    [op |-> op, sid |-> sid, user |-> u, res |-> out.res,
     again |-> (ret.op = op /\ ret.sid = sid /\ ret.user = u),
     missing |-> IF sid = 0 THEN \A s \in sessions : s.user_id # u ELSE FindSession(sid) = {},
     valid |-> \E s \in FindSession(sid) : Unexpired(s, now),
     unchanged |-> (Stored(out.store) = Stored(sessions))]

IdleCall == [pc |-> "idle", sid |-> 0, session |-> {}, late |-> FALSE,
             expired |-> FALSE, res |-> "none", pre |-> "none", upd |-> FALSE,
             nouser |-> FALSE, fields |-> {}]

createSession(u, ttl) ==
    /\ nextSid \in SessionIdPool
    /\ LET out == Create(adapter, sessions, nextSid, u, now, ttl)
       IN  /\ sessions' = out.store
           /\ ret' = SessionReturn("createSession", nextSid, u, out)
    /\ nextSid' = nextSid + 1
    /\ UNCHANGED <<tokVars, permVars, restVars, adapter, now, users, vs, eq>>

updateSessionExpiry(sid, ttl) ==
    /\ adapter \in {"mongo", "drizzle"}
    /\ LET out == UpdateExpiry(adapter, sessions, sid, now, ttl)
       IN  /\ sessions' = out.store
           /\ ret' = SessionReturn("updateSessionExpiry", sid, "", out)
    /\ UNCHANGED <<tokVars, permVars, restVars, adapter, now, users, nextSid, vs, eq>>

destroySession(sid) ==
    /\ LET out == Destroy(sessions, sid)
       IN  /\ sessions' = out.store
           /\ ret' = SessionReturn("destroySession", sid, "", out)
    /\ UNCHANGED <<tokVars, permVars, restVars, adapter, now, users, nextSid, vs, eq>>

invalidateAllUserSessions(u) ==
    /\ LET out == Invalidate(sessions, u)
       IN  /\ sessions' = out.store
           /\ ret' = SessionReturn("invalidateAllUserSessions", 0, u, out)
    /\ UNCHANGED <<tokVars, permVars, restVars, adapter, now, users, nextSid, vs, eq>>

deleteExpiredSessions ==
    /\ adapter \in {"mongo", "drizzle"}
    /\ \E out \in DeleteExpired(adapter, sessions, now) :
           /\ sessions' = out.store
           /\ ret' = SessionReturn("deleteExpiredSessions", 0, "", out)
    /\ UNCHANGED <<tokVars, permVars, restVars, adapter, now, users, nextSid, vs, eq>>

\* UserModel.deleteOne({ _id }) / delete from users where id = ?: the user
\* record alone.  (A Drizzle database that enforces the sessions and tokens
\* references refuses the statement instead, which changes nothing.)
deleteUser(u) ==
    /\ u \in users
    /\ users' = users \ {u}
    /\ UNCHANGED <<tokVars, permVars, restVars, adapter, now, sessions, nextSid, vs, ret, eq>>

\* --------------------------------------------------- validateSession
\* A call starts with its first storage read: the call record then holds the
\* session as read (session) and whether the stored record was already
\* expired at that moment (late).  expired: the call found the session
\* expired.  History, read by the properties only: a session record's
\* instant (the expiry createSession gave it) and updated (updateSessionExpiry
\* has touched it); a call's pre (the session's user if, when the caller was
\* answered, the record was in the store, its user existed and the clock was
\* before instant; "none" otherwise) and upd (the record was updated).
Done(c, r) ==
    [c EXCEPT
        !.pc = "done",
        !.res = r,
        !.pre = IF \E s \in FindSession(c.sid) : s.user_id \in users /\ now < s.instant
                THEN (CHOOSE s \in FindSession(c.sid) : TRUE).user_id ELSE "none",
        !.upd = \E s \in FindSession(c.sid) : s.updated,
        !.nouser = \E s \in c.session : s.user_id \notin users,
        !.fields = IF r \in {"null", "raise"} THEN {} ELSE ReturnedFields(adapter)]

\* history only: the stored record of this id, if any, was answered null for
Nulled(s, sid) == IF s.id = sid THEN [s EXCEPT !.nulled = TRUE] ELSE s

Begin(sid) ==
    [IdleCall EXCEPT !.sid = sid,
                     !.late = \E s \in FindSession(sid) : s.expires <= now]

\* user ? user.toObject() : null
UserOrNull(s) == IF s.user_id \in users THEN s.user_id ELSE "null"

validateSessionReturn(p) ==
    /\ vs[p].pc = "done"
    /\ vs' = [vs EXCEPT ![p] = IdleCall]
    /\ UNCHANGED <<tokVars, permVars, restVars, adapter, now, users, sessions, nextSid, ret, eq>>

\* MongoDBAuthAdapter: const session = await SessionModel.findById(session_id)
MongoFindSession(p, sid) ==
    /\ adapter = "mongo"
    /\ vs[p].pc = "idle"
    /\ vs' = [vs EXCEPT ![p] =
           [Begin(sid) EXCEPT !.pc = "check", !.session = FindSession(sid)]]
    /\ UNCHANGED <<tokVars, permVars, restVars, adapter, now, users, sessions, nextSid, ret, eq>>

\* MongoDBAuthAdapter: if (!session || session.expires <= new Date())
MongoCheckSession(p) ==
    /\ adapter = "mongo"
    /\ vs[p].pc = "check"
    /\ vs' = [vs EXCEPT ![p] =
           IF @.session = {}
           THEN Done(@, "null")
           ELSE IF \E s \in @.session : Expired(s, now)
                THEN [@ EXCEPT !.pc = "delete", !.expired = TRUE]
                ELSE [@ EXCEPT !.pc = "user"]]
    /\ UNCHANGED <<tokVars, permVars, restVars, adapter, now, users, sessions, nextSid, ret, eq>>

\* MongoDBAuthAdapter: if (session) await SessionModel.deleteOne({ _id }); return null
MongoDeleteSession(p) ==
    /\ adapter = "mongo"
    /\ vs[p].pc = "delete"
    /\ sessions' = sessions \ FindSession(vs[p].sid)
    /\ vs' = [vs EXCEPT ![p] = Done(@, "null")]
    /\ UNCHANGED <<tokVars, permVars, restVars, adapter, now, users, nextSid, ret, eq>>

\* MongoDBAuthAdapter: const user = await UserModel.findById(session.user_id)
MongoFindUser(p) ==
    /\ adapter = "mongo"
    /\ vs[p].pc = "user"
    /\ vs' = [vs EXCEPT ![p] = Done(@, UserOrNull(CHOOSE s \in @.session : TRUE))]
    /\ UNCHANGED <<tokVars, permVars, restVars, adapter, now, users, sessions, nextSid, ret, eq>>

\* DrizzleAuthAdapter: select ... where id = ? and expires > CURRENT_TIMESTAMP;
\* if (!session) return null
DrizzleSelectSession(p, sid) ==
    /\ adapter = "drizzle"
    /\ vs[p].pc = "idle"
    /\ LET live == {s \in FindSession(sid) : Unexpired(s, now)}
       IN /\ vs' = [vs EXCEPT ![p] =
                IF live = {}
                THEN Done([Begin(sid) EXCEPT !.expired = (FindSession(sid) # {})], "null")
                ELSE [Begin(sid) EXCEPT !.pc = "user", !.session = live]]
          /\ sessions' = IF live = {} THEN {Nulled(s, sid) : s \in sessions} ELSE sessions
    /\ UNCHANGED <<tokVars, permVars, restVars, adapter, now, users, nextSid, ret, eq>>

\* DrizzleAuthAdapter: return this.getUserById(session.userId)
DrizzleGetUser(p) ==
    /\ adapter = "drizzle"
    /\ vs[p].pc = "user"
    /\ vs' = [vs EXCEPT ![p] = Done(@, UserOrNull(CHOOSE s \in @.session : TRUE))]
    /\ UNCHANGED <<tokVars, permVars, restVars, adapter, now, users, sessions, nextSid, ret, eq>>

\* Auth: const session = await this.Session.findOne({ _id }); then session.user_id
\* is read with no test of session and none of session.expires.
AuthFindSession(p, sid) ==
    /\ adapter = "auth"
    /\ vs[p].pc = "idle"
    /\ vs' = [vs EXCEPT ![p] =
           IF FindSession(sid) = {}
           THEN Done(Begin(sid), "raise")
           ELSE [Begin(sid) EXCEPT !.pc = "user", !.session = FindSession(sid)]]
    /\ UNCHANGED <<tokVars, permVars, restVars, adapter, now, users, sessions, nextSid, ret, eq>>

\* Auth: const user = await this.User.findOne({ _id: session.user_id })
AuthFindUser(p) ==
    /\ adapter = "auth"
    /\ vs[p].pc = "user"
    /\ vs' = [vs EXCEPT ![p] = Done(@, UserOrNull(CHOOSE s \in @.session : TRUE))]
    /\ UNCHANGED <<tokVars, permVars, restVars, adapter, now, users, sessions, nextSid, ret, eq>>

validateSessionCall(p, sid) ==
    \/ MongoFindSession(p, sid)
    \/ DrizzleSelectSession(p, sid)
    \/ AuthFindSession(p, sid)

validateSessionStep(p) ==
    \/ MongoCheckSession(p) \/ MongoDeleteSession(p) \/ MongoFindUser(p)
    \/ DrizzleGetUser(p)
    \/ AuthFindUser(p)

\* ----------------------------------------- the two adapters side by side
\* validateSession as one call, with no other call in between
Validate(a, S, U, sid, t) ==
    LET hit == {s \in S : s.id = sid}
        live == {s \in hit : Unexpired(s, t)}
        user == IF \E s \in live : s.user_id \in U
                THEN [kind |-> "user", user_id |-> (CHOOSE s \in live : TRUE).user_id,
                      fields |-> ReturnedFields(a)]
                ELSE Null
    IN  IF a = "mongo"
        THEN IF hit = {} THEN [store |-> S, res |-> Null]
             ELSE IF live = {} THEN [store |-> S \ hit, res |-> Null]
             ELSE [store |-> S, res |-> user]
        ELSE IF live = {} THEN [store |-> S, res |-> Null]
             ELSE [store |-> S, res |-> user]

\* m, d: the session store of the MongoDB and of the Drizzle adapter; rm, rd:
\* what each returned from the last call; nid: the next session id
NoPair == [m |-> {}, d |-> {}, rm |-> Void, rd |-> Void, nid |-> 1]

Both(om, od, nid) ==
    /\ eq' = [m |-> om.store, d |-> od.store, rm |-> om.res, rd |-> od.res, nid |-> nid]
    /\ UNCHANGED <<tokVars, permVars, restVars, adapter, now, users, sessions, nextSid,
                   vs, ret>>

bothCreateSession(u, ttl) ==
    /\ eq.nid \in SessionIdPool
    /\ Both(Create("mongo", eq.m, eq.nid, u, now, ttl),
            Create("drizzle", eq.d, eq.nid, u, now, ttl), eq.nid + 1)

bothUpdateSessionExpiry(sid, ttl) ==
    Both(UpdateExpiry("mongo", eq.m, sid, now, ttl),
         UpdateExpiry("drizzle", eq.d, sid, now, ttl), eq.nid)

bothDestroySession(sid) == Both(Destroy(eq.m, sid), Destroy(eq.d, sid), eq.nid)

bothInvalidateAllUserSessions(u) == Both(Invalidate(eq.m, u), Invalidate(eq.d, u), eq.nid)

bothDeleteExpiredSessions ==
    \E om \in DeleteExpired("mongo", eq.m, now), od \in DeleteExpired("drizzle", eq.d, now) :
        Both(om, od, eq.nid)

bothGetActiveSessions(u) ==
    Both(ActiveSessions("mongo", eq.m, u, now), ActiveSessions("drizzle", eq.d, u, now), eq.nid)

bothValidateSession(sid) ==
    Both(Validate("mongo", eq.m, users, sid, now),
         Validate("drizzle", eq.d, users, sid, now), eq.nid)

\* --------------------------------------------------------- token store
TokenIds == 1..(nextTok - 1)

NoResult == [ok |-> FALSE, message |-> ""]
NotExist == [ok |-> FALSE, message |-> "Token does not exist"]

IdleTok == [pc |-> "idle", op |-> "none", token |-> 0, user_id |-> "", type |-> "",
            doc |-> {}, res |-> NoResult, atStart |-> "none", fresh |-> FALSE]

\* (mutant) a token counts as live at the very instant it expires
TokenLive_Inclusive(d, t) == d.expires >= t

\* tokenDoc.expires > new Date()
TokenLive(d, t) == d.expires > t

\* tokenDoc.expires > new Date() ? 'Token is valid' : 'Token is expired'
MessageOf(d, t) == IF TokenLive(d, t) THEN "Token is valid" ELSE "Token is expired"

\* MongoDBAuthAdapter: the filter { token, user_id }; the type is no part of it
MongoTokenFilter(tok, u, ty) ==
    {t \in tokens : t.token = tok /\ t.user_id = u}

\* DrizzleAuthAdapter: where token = ? and user_id = ? and type = ?
DrizzleTokenFilter(tok, u, ty) ==
    {t \in tokens : t.token = tok /\ t.user_id = u /\ t.type = ty}

\* (mutant) the token is read and left in the store
ConsumeRemoves_Nothing(doc) == {}

\* findOneAndDelete / delete ... returning: what is returned is what is removed
ConsumeRemoves(doc) == doc

\* History: how the stored token compares with a call's arguments at the
\* call's storage step, by the issued type (kind) whatever the adapter stores.
StoreView(tok, u, ty) ==
    LET same == {t \in tokens : t.token = tok}
    IN IF same = {} THEN "gone"
       ELSE IF \E t \in same : t.user_id # u THEN "wrong_user"
       ELSE IF \E t \in same : t.kind # ty THEN "wrong_type"
       ELSE "match"

\* createToken: the MongoDB adapter stores { user_id, token, email, expires },
\* the Drizzle adapter { userId, token, type, expires }.  History: kind (the
\* type asked for) and zero (issued with ttl = 0).
createToken(u, ty, ttl) ==
    /\ nextTok \in TokenPool
    /\ tokens' = tokens \cup
           {[token |-> nextTok, user_id |-> u,
             type |-> IF adapter = "drizzle" THEN ty ELSE "",
             expires |-> ExpiryOf(now, ttl), kind |-> ty, zero |-> (ttl = 0)]}
    /\ nextTok' = nextTok + 1
    /\ wins' = wins @@ (nextTok :> 0)
    /\ UNCHANGED <<sessVars, permVars, restVars, adapter, now, tk>>

deleteExpiredTokens ==
    /\ \E t \in tokens : Expired(t, now)
    /\ tokens' = {t \in tokens : ~Expired(t, now)}
    /\ UNCHANGED <<sessVars, permVars, restVars, adapter, now, nextTok, tk, wins>>

BeginTok(op, tok, u, ty) ==
    [IdleTok EXCEPT !.op = op, !.token = tok, !.user_id = u, !.type = ty,
                    !.atStart = StoreView(tok, u, ty)]

\* the call record with the storage read's result: no document ends the call
Found(c, doc, next) ==
    IF doc = {} THEN [c EXCEPT !.pc = "done", !.res = NotExist]
    ELSE [c EXCEPT !.pc = next, !.doc = doc]

Won(tok, doc) ==
    IF doc = {} THEN wins ELSE [wins EXCEPT ![tok] = @ + 1]

TheDoc(c) == CHOOSE d \in c.doc : TRUE

\* MongoDBAuthAdapter.validateToken: await TokenModel.findOne({ token, user_id })
MongoValidateFind(p, tok, u, ty) ==
    /\ adapter = "mongo"
    /\ tk[p].pc = "idle"
    /\ tk' = [tk EXCEPT ![p] =
           Found(BeginTok("validate", tok, u, ty), MongoTokenFilter(tok, u, ty), "message")]
    /\ UNCHANGED <<sessVars, permVars, restVars, adapter, now, tokens, nextTok, wins>>

\* MongoDBAuthAdapter.consumeToken: await TokenModel.findOneAndDelete({ token, user_id })
MongoConsumeFindAndDelete(p, tok, u, ty) ==
    /\ adapter = "mongo"
    /\ tk[p].pc = "idle"
    /\ LET doc == MongoTokenFilter(tok, u, ty)
       IN /\ tk' = [tk EXCEPT ![p] = Found(BeginTok("consume", tok, u, ty), doc, "message")]
          /\ tokens' = tokens \ ConsumeRemoves(doc)
          /\ wins' = Won(tok, doc)
    /\ UNCHANGED <<sessVars, permVars, restVars, adapter, now, nextTok>>

\* MongoDBAuthAdapter: const message = tokenDoc.expires > new Date() ? ... : ...
MongoTokenMessage(p) ==
    /\ adapter = "mongo"
    /\ tk[p].pc = "message"
    /\ tk' = [tk EXCEPT ![p] = [@ EXCEPT !.pc = "status",
                 !.res = [ok |-> FALSE, message |-> MessageOf(TheDoc(tk[p]), now)]]]
    /\ UNCHANGED <<sessVars, permVars, restVars, adapter, now, tokens, nextTok, wins>>

\* MongoDBAuthAdapter: return { success | status: tokenDoc.expires > new Date(), message }
MongoTokenStatus(p) ==
    /\ adapter = "mongo"
    /\ tk[p].pc = "status"
    /\ tk' = [tk EXCEPT ![p] = [@ EXCEPT !.pc = "done",
                 !.res = [ok |-> TokenLive(TheDoc(tk[p]), now), message |-> tk[p].res.message],
                 !.fresh = (TheDoc(tk[p]).expires > now)]]
    /\ UNCHANGED <<sessVars, permVars, restVars, adapter, now, tokens, nextTok, wins>>

\* DrizzleAuthAdapter.validateToken: select ... where token, userId, type
DrizzleValidateSelect(p, tok, u, ty) ==
    /\ adapter = "drizzle"
    /\ tk[p].pc = "idle"
    /\ tk' = [tk EXCEPT ![p] =
           Found(BeginTok("validate", tok, u, ty), DrizzleTokenFilter(tok, u, ty), "check")]
    /\ UNCHANGED <<sessVars, permVars, restVars, adapter, now, tokens, nextTok, wins>>

\* DrizzleAuthAdapter.consumeToken: delete ... where token, userId, type ... returning
DrizzleConsumeDelete(p, tok, u, ty) ==
    /\ adapter = "drizzle"
    /\ tk[p].pc = "idle"
    /\ LET doc == DrizzleTokenFilter(tok, u, ty)
       IN /\ tk' = [tk EXCEPT ![p] = Found(BeginTok("consume", tok, u, ty), doc, "check")]
          /\ tokens' = tokens \ ConsumeRemoves(doc)
          /\ wins' = Won(tok, doc)
    /\ UNCHANGED <<sessVars, permVars, restVars, adapter, now, nextTok>>

\* DrizzleAuthAdapter: if (doc.expires > new Date()) valid else expired
DrizzleTokenCheck(p) ==
    /\ adapter = "drizzle"
    /\ tk[p].pc = "check"
    /\ tk' = [tk EXCEPT ![p] = [@ EXCEPT !.pc = "done",
                 !.res = [ok |-> TokenLive(TheDoc(tk[p]), now),
                          message |-> MessageOf(TheDoc(tk[p]), now)],
                 !.fresh = (TheDoc(tk[p]).expires > now)]]
    /\ UNCHANGED <<sessVars, permVars, restVars, adapter, now, tokens, nextTok, wins>>

validateToken(p, tok, u, ty) ==
    \/ MongoValidateFind(p, tok, u, ty)
    \/ DrizzleValidateSelect(p, tok, u, ty)

consumeToken(p, tok, u, ty) ==
    \/ MongoConsumeFindAndDelete(p, tok, u, ty)
    \/ DrizzleConsumeDelete(p, tok, u, ty)

tokenStep(p) ==
    \/ MongoTokenMessage(p) \/ MongoTokenStatus(p)
    \/ DrizzleTokenCheck(p)

tokenReturn(p) ==
    /\ tk[p].pc = "done"
    /\ tk' = [tk EXCEPT ![p] = IdleTok]
    /\ UNCHANGED <<sessVars, permVars, restVars, adapter, now, tokens, nextTok, wins>>

\* --------------------------------------------------- permission check
\* populate(): the referenced documents that exist
PopulatedRoles(user) == {r \in user.roles : r \in DOMAIN roles}
PopulatedPermissions(ids) == {d \in permissionModel : d._id \in ids}

getPermissionsForRole(role_id) ==
    IF role_id \in DOMAIN roles THEN PopulatedPermissions(roles[role_id]) ELSE {}

\* the registered permission ids: registerPermission keeps the _id only
registerPermission(newPermission) ==
    /\ permissions' = permissions \cup {newPermission._id}
    /\ UNCHANGED <<sessVars, tokVars, restVars, adapter, now, authAdapter, roles,
                   rolePermissionCache, pk>>

getAllPermissions_Registered == PermissionDocs

\* the full Permission objects are stored nowhere: the function returns []
getAllPermissions == {}

\* the Registry's answer for a role name: the role document or nothing
getRoleByName(role) ==
    IF role \in DOMAIN roles THEN {[name |-> role, permissions |-> roles[role]]} ELSE {}

\* allPermissions.filter(p => userRole.permissions.includes(p._id))
RolePermissions(allPermissions, userRole) ==
    {permission \in allPermissions : permission._id \in userRole.permissions}

checkForSelfLockout_Never(user, config, userPermissions) == FALSE

checkForSelfLockout(user, config, userPermissions) ==
    IF config.requiredRole # "admin" /\ user.role = config.requiredRole
    THEN \A permission \in userPermissions :
             \/ permission._id # config.contextId
             \/ permission.action # config.action
             \/ permission.contextType # config.contextType
    ELSE FALSE

Matches(permission, config) ==
    /\ permission._id = config.contextId
    /\ permission.action = config.action
    /\ \/ permission.contextType = config.contextType
       \/ permission.contextType = SYSTEM

isAdmin_Nobody(user) == FALSE

isAdmin(user) == user.role = "admin"

\* lines 81-97: the decision once the role's permission set is resolved
Decide(user, config, userPermissions) ==
    IF checkForSelfLockout(user, config, userPermissions)
    THEN FALSE
    ELSE \E permission \in userPermissions : Matches(permission, config)

IdleCheck ==
    [pc |-> "idle", user |-> [role |-> "", permissions |-> {}], config |-> {}, all |-> {},
     hasPermission |-> FALSE, failed |-> FALSE, registered |-> {},
     stale |-> FALSE, expected |-> FALSE,
     miss |-> FALSE, seen |-> {}, resolved |-> {}, over |-> FALSE, moved |-> FALSE]

Answer(c, b) == [c EXCEPT !.pc = "done", !.hasPermission = b]

\* checkUserPermission up to its first wait on the Registry
checkUserPermission(p, user, config) ==
    /\ pk[p].pc = "idle"
    /\ LET c == [IdleCheck EXCEPT !.user = user, !.config = {config},
                                  !.registered = permissions,
                                  !.stale = user.role \in outdated,
                                  !.expected = \E d \in getPermissionsForRole(user.role) :
                                                  Matches(d, config)]
       IN  pk' = [pk EXCEPT ![p] =
                IF isAdmin(user) THEN Answer(c, TRUE)
                ELSE IF ~authAdapter THEN Answer(c, FALSE)
                ELSE IF user.role \in DOMAIN rolePermissionCache
                THEN Answer([c EXCEPT !.resolved = rolePermissionCache[user.role]],
                            Decide(user, config, rolePermissionCache[user.role]))
                ELSE [c EXCEPT !.pc = "role", !.all = getAllPermissions, !.miss = TRUE,
                               !.seen = getRoleByName(user.role)]]
    /\ UNCHANGED <<sessVars, tokVars, restVars, adapter, now, authAdapter, roles,
                   permissions, rolePermissionCache>>

TheConfig(c) == CHOOSE config \in c.config : TRUE

\* the rest of getCachedRolePermissions and of checkUserPermission, run when
\* authAdapter.getRoleByName answers
RoleResolved(p) ==
    /\ pk[p].pc = "role"
    /\ LET c == pk[p]
           found == getRoleByName(c.user.role)
       IN  IF found = {}
           THEN /\ pk' = [pk EXCEPT ![p] = Answer(c, Decide(c.user, TheConfig(c), {}))]
                /\ UNCHANGED rolePermissionCache
           ELSE LET userRole == CHOOSE r \in found : TRUE
                    rolePermissions == RolePermissions(c.all, userRole)
                IN  /\ rolePermissionCache' =
                           [r \in DOMAIN rolePermissionCache \cup {c.user.role} |->
                               IF r = c.user.role THEN rolePermissions
                               ELSE rolePermissionCache[r]]
                    /\ pk' = [pk EXCEPT ![p] =
                                 Answer([c EXCEPT
                                            !.resolved = rolePermissions,
                                            !.over = c.user.role \in DOMAIN rolePermissionCache,
                                            !.moved = (found # c.seen)],
                                        Decide(c.user, TheConfig(c), rolePermissions))]
    /\ UNCHANGED <<sessVars, tokVars, restVars, adapter, now, authAdapter, roles, permissions>>

\* authAdapter.getRoleByName raises: rethrown by getCachedRolePermissions,
\* caught by checkUserPermission, which answers hasPermission false
RoleLookupFails(p) ==
    /\ pk[p].pc = "role"
    /\ pk' = [pk EXCEPT ![p] = [Answer(pk[p], FALSE) EXCEPT !.failed = TRUE]]
    /\ UNCHANGED <<sessVars, tokVars, restVars, adapter, now, authAdapter, roles,
                   permissions, rolePermissionCache>>

checkUserPermissionReturn(p) ==
    /\ pk[p].pc = "done"
    /\ pk' = [pk EXCEPT ![p] = IdleCheck]
    /\ UNCHANGED <<sessVars, tokVars, restVars, adapter, now, authAdapter, roles,
                   permissions, rolePermissionCache>>

\* lines 79-97 of checkUserPermission on their own: the decision taken for a
\* non-admin user once userPermissions is resolved, whatever set that is
NoDecision == [state |-> "none"]

decide(user, config, userPermissions) ==
    /\ ~isAdmin(user)
    /\ decision' = [state |-> "done", user |-> user, config |-> config,
                    userPermissions |-> userPermissions,
                    hasPermission |-> Decide(user, config, userPermissions)]
    /\ UNCHANGED <<sessVars, tokVars, permVars, regVars, userVars, cn, blocked, adapter, now>>

\* ------------------------------------------- Registry (MongoDB adapter)
\* String.prototype.toLowerCase on the role names in use
toLowerCase(name) ==
    CASE name = "Admin" -> "admin"
      [] name = "Editor" -> "editor"
      [] OTHER -> name

\* const isAdmin = user.roles?.some((role) => role.name.toLowerCase() === 'admin')
hasAdminRole(user) == \E r \in PopulatedRoles(user) : toLowerCase(r) = "admin"

\* config page load: if (userRole.toLowerCase() === 'admin') hasPermission = true
loadBypass(userRole) == toLowerCase(userRole) = "admin"

\* one user seen by the three entry points: what each admin short-circuit
\* answers for it
exempt(user) ==
    /\ decision' = [state |-> "exempt", user |-> user,
                    permissionCheck |-> isAdmin(user),
                    authAdapter |-> hasAdminRole(user),
                    load |-> loadBypass(user.role)]
    /\ UNCHANGED <<sessVars, tokVars, permVars, regVars, userVars, cn, blocked, adapter, now>>

MongoCheckUserPermission_Anyone(user_id, requiredAction) == TRUE

\* MongoDBAuthAdapter.checkUserPermission(user_id, requiredAction)
MongoCheckUserPermission(user_id, requiredAction) ==
    IF user_id \notin DOMAIN regUsers THEN FALSE
    ELSE LET user == regUsers[user_id]
         IN  \/ hasAdminRole(user)
             \/ \E d \in PopulatedPermissions(user.permissions) : d.action = requiredAction
             \/ \E r \in PopulatedRoles(user) :
                    \E d \in PopulatedPermissions(roles[r]) : d.action = requiredAction

AddToSet_Nothing(set, x) == set

\* $addToSet and $pull
AddToSet(set, x) == set \cup {x}
Pull(set, x) == set \ {x}

IdleReg ==
    [pc |-> "idle", op |-> "none", actor |-> "", role |-> "", permission |-> "",
     data |-> {}, outcome |-> "none", lacked |-> FALSE, wrote |-> FALSE,
     selfRevoke |-> FALSE]

Unauthorized == "Unauthorized"

\* the capability each operation tests first, and whether it tests a second
FirstCapability(op) ==
    IF op \in {"createPermission", "updatePermission", "deletePermission"}
    THEN "manage_permissions" ELSE "manage_roles"
TwoChecks(op) == op \in {"assignPermissionToRole", "removePermissionFromRole"}

\* history: whether the actor is a stored principal that is admin or holds,
\* directly or through a role, a permission with this action
HoldsCapability(actor, capability) ==
    /\ actor \in DOMAIN regUsers
    /\ \/ \E r \in regUsers[actor].roles : r \in DOMAIN roles /\ toLowerCase(r) = "admin"
       \/ \E d \in permissionModel :
              /\ d.action = capability
              /\ \/ d._id \in regUsers[actor].permissions
                 \/ \E r \in regUsers[actor].roles : r \in DOMAIN roles /\ d._id \in roles[r]

\* history: role R holds exactly this permission and the actor's role is R
SelfRevoke(actor, role, permission) ==
    /\ actor \in DOMAIN regUsers
    /\ role \in regUsers[actor].roles
    /\ role \in DOMAIN roles
    /\ roles[role] = {permission}

\* a mutation call up to the answer of its first checkUserPermission
BeginRegistryCall(p, op, actor, role, permission, data) ==
    /\ rc[p].pc = "idle"
    /\ LET c == [IdleReg EXCEPT !.op = op, !.actor = actor, !.role = role,
                                !.permission = permission, !.data = data,
                                !.lacked = ~HoldsCapability(actor, FirstCapability(op)),
                                !.selfRevoke = /\ op = "removePermissionFromRole"
                                               /\ SelfRevoke(actor, role, permission)]
       IN  rc' = [rc EXCEPT ![p] =
                IF ~MongoCheckUserPermission(actor, FirstCapability(op))
                THEN [c EXCEPT !.pc = "done", !.outcome = Unauthorized]
                ELSE [c EXCEPT !.pc = IF TwoChecks(op) THEN "check2" ELSE "write"]]
    /\ UNCHANGED <<sessVars, tokVars, permVars, userVars, decision, regUsers, permissionModel,
                   outdated, adapter, now, cn, blocked>>

createRole(p, roleData, currentUserId) ==
    BeginRegistryCall(p, "createRole", currentUserId, roleData.name, "", {roleData})
updateRole(p, role_id, roleData, currentUserId) ==
    BeginRegistryCall(p, "updateRole", currentUserId, role_id, "", {roleData})
deleteRole(p, role_id, currentUserId) ==
    BeginRegistryCall(p, "deleteRole", currentUserId, role_id, "", {})
createPermission(p, permissionData, currentUserId) ==
    BeginRegistryCall(p, "createPermission", currentUserId, "", permissionData._id,
                      {permissionData})
updatePermission(p, permission_id, permissionData, currentUserId) ==
    BeginRegistryCall(p, "updatePermission", currentUserId, "", permission_id,
                      {permissionData})
deletePermission(p, permission_id, currentUserId) ==
    BeginRegistryCall(p, "deletePermission", currentUserId, "", permission_id, {})
assignPermissionToRole(p, role_id, permission_id, currentUserId) ==
    BeginRegistryCall(p, "assignPermissionToRole", currentUserId, role_id, permission_id, {})
removePermissionFromRole(p, role_id, permission_id, currentUserId) ==
    BeginRegistryCall(p, "removePermissionFromRole", currentUserId, role_id, permission_id, {})

\* the second checkUserPermission of assign / removePermissionFromRole
SecondCheck(p) ==
    /\ rc[p].pc = "check2"
    /\ LET c == [rc[p] EXCEPT !.lacked = ~HoldsCapability(rc[p].actor, "manage_permissions")]
       IN  rc' = [rc EXCEPT ![p] =
                IF ~MongoCheckUserPermission(c.actor, "manage_permissions")
                THEN [c EXCEPT !.pc = "done", !.outcome = Unauthorized]
                ELSE [c EXCEPT !.pc = IF c.op = "assignPermissionToRole"
                                      THEN "roleExists" ELSE "write"]]
    /\ UNCHANGED <<sessVars, tokVars, permVars, userVars, decision, regUsers, permissionModel,
                   outdated, adapter, now, cn, blocked>>

\* assignPermissionToRole: RoleModel.exists, then PermissionModel.exists
RoleExists(p) ==
    /\ rc[p].pc = "roleExists"
    /\ rc' = [rc EXCEPT ![p] =
                IF rc[p].role \in DOMAIN roles
                THEN [@ EXCEPT !.pc = "permissionExists"]
                ELSE [@ EXCEPT !.pc = "done", !.outcome = "Role not found"]]
    /\ UNCHANGED <<sessVars, tokVars, permVars, userVars, decision, regUsers, permissionModel,
                   outdated, adapter, now, cn, blocked>>

PermissionExists(p) ==
    /\ rc[p].pc = "permissionExists"
    /\ rc' = [rc EXCEPT ![p] =
                IF \E d \in permissionModel : d._id = rc[p].permission
                THEN [@ EXCEPT !.pc = "write"]
                ELSE [@ EXCEPT !.pc = "done", !.outcome = "Permission not found"]]
    /\ UNCHANGED <<sessVars, tokVars, permVars, userVars, decision, regUsers, permissionModel,
                   outdated, adapter, now, cn, blocked>>

TheData(c) == CHOOSE d \in c.data : TRUE

SetRole(name, perms) ==
    [r \in DOMAIN roles \cup {name} |-> IF r = name THEN perms ELSE roles[r]]

\* what the storage write of each operation leaves in RoleModel
RolesAfter(c) ==
    CASE c.op = "createRole" ->
             IF c.role \in DOMAIN roles THEN roles
             ELSE SetRole(c.role, TheData(c).permissions)
      [] c.op = "updateRole" ->
             IF c.role \in DOMAIN roles THEN SetRole(c.role, TheData(c).permissions)
             ELSE roles
      [] c.op = "deleteRole" -> [r \in DOMAIN roles \ {c.role} |-> roles[r]]
      [] c.op = "assignPermissionToRole" ->
             IF c.role \in DOMAIN roles
             THEN SetRole(c.role, AddToSet(roles[c.role], c.permission))
             ELSE roles
      [] c.op = "removePermissionFromRole" ->
             IF c.role \in DOMAIN roles
             THEN SetRole(c.role, Pull(roles[c.role], c.permission))
             ELSE roles
      [] OTHER -> roles

\* and in PermissionModel
PermissionsAfter(c) ==
    CASE c.op = "createPermission" ->
             IF \E d \in permissionModel : d._id = c.permission THEN permissionModel
             ELSE permissionModel \cup {TheData(c)}
      [] c.op = "updatePermission" ->
             {IF d._id = c.permission THEN [d EXCEPT !.action = TheData(c).action] ELSE d :
                  d \in permissionModel}
      [] c.op = "deletePermission" -> {d \in permissionModel : d._id # c.permission}
      [] OTHER -> permissionModel

\* save() of a document whose key is taken, and findByIdAndUpdate finding nothing
WriteOutcome(c) ==
    CASE c.op = "createRole" /\ c.role \in DOMAIN roles -> "duplicate key"
      [] c.op = "createPermission" /\ (\E d \in permissionModel : d._id = c.permission)
             -> "duplicate key"
      [] c.op = "assignPermissionToRole" /\ c.role \notin DOMAIN roles
             -> "Unexpected: Role not found"
      [] OTHER -> "ok"

\* the storage write that ends every authorized mutation
RegistryWrite(p) ==
    /\ rc[p].pc = "write"
    /\ roles' = RolesAfter(rc[p])
    /\ permissionModel' = PermissionsAfter(rc[p])
    /\ rc' = [rc EXCEPT ![p] = [@ EXCEPT !.pc = "done", !.outcome = WriteOutcome(rc[p]),
                                         !.wrote = TRUE]]
    /\ outdated' = IF /\ RolesAfter(rc[p]) # roles
                      /\ rc[p].role \in DOMAIN rolePermissionCache
                   THEN outdated \cup {rc[p].role} ELSE outdated
    /\ UNCHANGED <<sessVars, tokVars, userVars, decision, regUsers, adapter, now,
                   authAdapter, permissions, rolePermissionCache, pk, cn, blocked>>

registryReturn(p) ==
    /\ rc[p].pc = "done"
    /\ rc' = [rc EXCEPT ![p] = IdleReg]
    /\ UNCHANGED <<sessVars, tokVars, permVars, userVars, decision, regUsers, permissionModel,
                   outdated, adapter, now, cn, blocked>>

\* the defaults of initializeDefaultRolesAndPermissions
defaultPermissions ==
    {[_id |-> "create_content", action |-> "create"],
     [_id |-> "read_content", action |-> "read"],
     [_id |-> "update_content", action |-> "write"],
     [_id |-> "delete_content", action |-> "delete"],
     [_id |-> "manage_roles", action |-> "manage_roles"],
     [_id |-> "manage_permissions", action |-> "manage_permissions"]}

defaultRoles == {"admin", "developer", "editor", "user"}

\* the currentUserId of a call made without one
NoCurrentUser == "undefined"

\* the principal initializeDefaultRolesAndPermissions passes on to createRole,
\* createPermission and assignPermissionToRole: none
InitializeAs == NoCurrentUser

\* MongoDBAuthAdapter.initializeDefaultRolesAndPermissions, start to end: on
\* an empty Registry the createRole calls, the createPermission calls, then an
\* assignPermissionToRole to admin for each created permission; the first call
\* that is refused ends it with that error, what was written before stays
initializeDefaultRolesAndPermissions(p) ==
    /\ rc[p].pc = "idle"
    /\ LET c == [IdleReg EXCEPT !.pc = "done", !.actor = InitializeAs,
                                !.op = "initializeDefaultRolesAndPermissions"]
           mayRoles == MongoCheckUserPermission(InitializeAs, "manage_roles")
           mayPermissions == MongoCheckUserPermission(InitializeAs, "manage_permissions")
           created == [r \in defaultRoles |-> {}]
           assigned == [created EXCEPT !["admin"] = {d._id : d \in defaultPermissions}]
       IN  IF DOMAIN roles # {} \/ permissionModel # {}
           THEN /\ rc' = [rc EXCEPT ![p] = [c EXCEPT !.outcome = "skipped"]]
                /\ UNCHANGED <<roles, permissionModel>>
           ELSE IF ~mayRoles
           THEN /\ rc' = [rc EXCEPT ![p] = [c EXCEPT !.outcome = Unauthorized]]
                /\ UNCHANGED <<roles, permissionModel>>
           ELSE IF ~mayPermissions
           THEN /\ rc' = [rc EXCEPT ![p] = [c EXCEPT !.outcome = Unauthorized, !.wrote = TRUE]]
                /\ roles' = created
                /\ UNCHANGED permissionModel
           ELSE /\ rc' = [rc EXCEPT ![p] = [c EXCEPT !.outcome = "ok", !.wrote = TRUE]]
                /\ roles' = assigned
                /\ permissionModel' = defaultPermissions
    /\ UNCHANGED <<sessVars, tokVars, userVars, decision, regUsers, outdated, adapter, now,
                   authAdapter, permissions, rolePermissionCache, pk, cn, blocked>>

\* the four user operations: one updateOne each, no acting principal
SetUser(user_id, field, value) ==
    IF user_id \in DOMAIN regUsers
    THEN [regUsers EXCEPT ![user_id] =
             IF field = "roles" THEN [@ EXCEPT !.roles = value]
             ELSE [@ EXCEPT !.permissions = value]]
    ELSE regUsers

assignRoleToUser(user_id, role_id) ==
    /\ user_id \in DOMAIN regUsers
    /\ regUsers' = SetUser(user_id, "roles", AddToSet(regUsers[user_id].roles, role_id))
    /\ UNCHANGED <<sessVars, tokVars, permVars, userVars, decision, permissionModel, rc, outdated,
                   adapter, now, cn, blocked>>

removeRoleFromUser(user_id, role_id) ==
    /\ user_id \in DOMAIN regUsers
    /\ regUsers' = SetUser(user_id, "roles", Pull(regUsers[user_id].roles, role_id))
    /\ UNCHANGED <<sessVars, tokVars, permVars, userVars, decision, permissionModel, rc, outdated,
                   adapter, now, cn, blocked>>

assignPermissionToUser(user_id, permission_id) ==
    /\ user_id \in DOMAIN regUsers
    /\ regUsers' = SetUser(user_id, "permissions",
                           AddToSet(regUsers[user_id].permissions, permission_id))
    /\ UNCHANGED <<sessVars, tokVars, permVars, userVars, decision, permissionModel, rc, outdated,
                   adapter, now, cn, blocked>>

removePermissionFromUser(user_id, permission_id) ==
    /\ user_id \in DOMAIN regUsers
    /\ regUsers' = SetUser(user_id, "permissions",
                           Pull(regUsers[user_id].permissions, permission_id))
    /\ UNCHANGED <<sessVars, tokVars, permVars, userVars, decision, permissionModel, rc, outdated,
                   adapter, now, cn, blocked>>

\* ---------------------------------------------------------- user store
NoPassword == "none"

\* argon2.hash(password, argon2Attributes): an encoded hash, never the input
hash(password) == "$argon2id$" \o password

EmailTaken_Never(email) == FALSE

\* the unique index on email (UserSchema email unique, users.email unique())
EmailTaken(email) == \E d \in userDocs : d.email = email

IdleUser ==
    [pc |-> "idle", op |-> "none", email |-> "", password |-> NoPassword,
     outcome |-> "none", dup |-> FALSE, overlap |-> FALSE]

NoLogin ==
    [state |-> "none", email |-> "", password |-> "", found |-> FALSE, wrong |-> FALSE,
     nopass |-> FALSE,
     res |-> "none"]

UserIdle ==
    /\ userDocs = {}
    /\ nextUid = 1
    /\ uc = [p \in UserCallers |-> IdleUser]
    /\ lg = NoLogin

\* the insert of a new user record: refused by the unique index when the
\* email is stored already
Insert(p, c) ==
    /\ nextUid \in UserIdPool
    /\ IF EmailTaken(c.email)
       THEN /\ uc' = [uc EXCEPT ![p] = [c EXCEPT !.pc = "done", !.outcome = "duplicate key",
                                                 !.dup = TRUE]]
            /\ UNCHANGED <<userDocs, nextUid>>
       ELSE /\ userDocs' = userDocs \cup
                   {[id |-> nextUid, email |-> c.email, password |-> c.password]}
            /\ nextUid' = nextUid + 1
            /\ uc' = [uc EXCEPT ![p] =
                         [c EXCEPT !.pc = "done", !.outcome = "ok",
                                   !.dup = \E d \in userDocs : d.email = c.email]]

\* Auth.createUser waits for argon2.hash when a password is given, then
\* inserts; the adapters' createUser (called without a password) inserts
createUser(p, email, password) ==
    /\ uc[p].pc = "idle"
    /\ adapter # "auth" => password = NoPassword
    /\ LET c == [IdleUser EXCEPT !.op = "createUser", !.email = email,
                                  !.overlap = \E q \in UserCallers \ {p} :
                                      uc[q].pc = "insert" /\ uc[q].email = email]
       IN  IF adapter = "auth" /\ password # NoPassword
           THEN /\ uc' = [uc EXCEPT ![p] = [c EXCEPT !.pc = "insert",
                                                     !.password = hash(password)]]
                /\ UNCHANGED <<userDocs, nextUid>>
           ELSE Insert(p, c)
    /\ UNCHANGED <<sessVars, tokVars, permVars, decision, regVars, adapter, now, lg, cn, blocked>>

insertMany(p) ==
    /\ uc[p].pc = "insert"
    /\ Insert(p, uc[p])
    /\ UNCHANGED <<sessVars, tokVars, permVars, decision, regVars, adapter, now, lg, cn, blocked>>

\* actions.addUser: auth.checkUser({ email }), then auth.createUser without
\* a password
addUser(p, email) ==
    /\ uc[p].pc = "idle"
    /\ adapter = "auth"
    /\ LET c == [IdleUser EXCEPT !.op = "addUser", !.email = email]
       IN  uc' = [uc EXCEPT ![p] =
                IF EmailTaken(email)
                THEN [c EXCEPT !.pc = "done", !.outcome = "user already exists"]
                ELSE [c EXCEPT !.pc = "insert"]]
    /\ UNCHANGED <<sessVars, tokVars, permVars, decision, regVars, adapter, now,
                   userDocs, nextUid, lg, cn, blocked>>

userReturn(p) ==
    /\ uc[p].pc = "done"
    /\ uc' = [uc EXCEPT ![p] = IdleUser]
    /\ UNCHANGED <<sessVars, tokVars, permVars, decision, regVars, adapter, now,
                   userDocs, nextUid, lg, cn, blocked>>

SetPassword(id, value) ==
    {IF d.id = id THEN [d EXCEPT !.password = value] ELSE d : d \in userDocs}

\* Auth.updateUserAttributes with attributes = { password }
updateUserAttributes(id, password) ==
    /\ adapter = "auth"
    /\ userDocs' = SetPassword(id, hash(password))
    /\ UNCHANGED <<sessVars, tokVars, permVars, decision, regVars, adapter, now,
                   nextUid, uc, lg, cn, blocked>>

\* UserAdapter.changePassword: findByIdAndUpdate(user_id, { password: newPassword })
changePassword(id, newPassword) ==
    /\ adapter = "mongo"
    /\ userDocs' = SetPassword(id, newPassword)
    /\ UNCHANGED <<sessVars, tokVars, permVars, decision, regVars, adapter, now,
                   nextUid, uc, lg, cn, blocked>>

\* Auth.updateKeyPassword on the user its findOne returned
updateKeyPassword(id, newPassword) ==
    /\ adapter = "auth"
    /\ userDocs' = SetPassword(id, newPassword)
    /\ UNCHANGED <<sessVars, tokVars, permVars, decision, regVars, adapter, now,
                   nextUid, uc, lg, cn, blocked>>

\* argon2.verify(digest, plain): the digest is decoded first, which raises on
\* a value that is no encoded hash (undefined, or a plaintext)
verify(digest, password) ==
    IF \A pw \in LoginPasswords : digest # hash(pw) THEN "raise"
    ELSE IF digest = hash(password) THEN "true" ELSE "false"

\* if (user && (await argon2.verify(user.password, password))) return { ...user };
\* return null
LoginOutcome(found, password) ==
    IF found = {} THEN "null"
    ELSE LET v == verify((CHOOSE d \in found : TRUE).password, password)
         IN  IF v = "raise" THEN "raise" ELSE IF v = "true" THEN "user" ELSE "null"

\* Auth.login.  History: found (a user record has the email), wrong (it has
\* one, and the supplied password is not the one stored, hashed or not) and
\* nopass (it has one, stored without a password)
login(email, password) ==
    /\ adapter = "auth"
    /\ LET found == {d \in userDocs : d.email = email}
       IN  lg' = [state |-> "done", email |-> email, password |-> password,
                  found |-> (found # {}),
                  wrong |-> \E d \in found : d.password \notin {password, hash(password)},
                  nopass |-> \E d \in found : d.password = NoPassword,
                  res |-> LoginOutcome(found, password)]
    /\ UNCHANGED <<sessVars, tokVars, permVars, decision, regVars, adapter, now,
                   userDocs, nextUid, uc, cn, blocked>>

\* ------------------------------------------- UserAdapter.blockUser
\* the schema declares blocked: Boolean with no default
NeverBlocked == [u \in UserIds |-> "undefined"]

SetBlocked_Everyone(user_id, value) == [u \in UserIds |-> value]

\* findByIdAndUpdate(user_id, { blocked: value }): the record of this id, if
\* there is one
SetBlocked(user_id, value) ==
    IF user_id \in users THEN [blocked EXCEPT ![user_id] = value] ELSE blocked

blockUser(user_id) ==
    /\ adapter = "mongo"
    /\ blocked' = SetBlocked(user_id, "true")
    /\ UNCHANGED <<adapter, now, sessVars, tokVars, permVars, decision, regVars, userVars, cn>>

unblockUser(user_id) ==
    /\ adapter = "mongo"
    /\ blocked' = SetBlocked(user_id, "false")
    /\ UNCHANGED <<adapter, now, sessVars, tokVars, permVars, decision, regVars, userVars, cn>>

\* ------------------------------------------------- MongoDBAdapter.connect
\* attempts: the loop variable; n: the argument.  History: tried (calls of
\* mongoose.connect made) and waits (retry delays started).
NoConnect ==
    [pc |-> "idle", n |-> 0, attempts |-> 0, delay |-> 0, remaining |-> 0,
     tried |-> 0, waits |-> 0]

Exhausted_Never(attempts) == FALSE

\* if (attempts <= 0) throw
Exhausted(attempts) == attempts <= 0

\* connect(attempts) with privateEnv.DB_RETRY_DELAY = delay, up to the first
\* mongoose.connect
connect(n, delay) ==
    /\ cn.pc = "idle"
    /\ cn' = [NoConnect EXCEPT !.pc = IF n > 0 THEN "connect" ELSE "returned",
                               !.n = n, !.attempts = n, !.delay = delay]
    /\ UNCHANGED <<sessVars, tokVars, permVars, decision, regVars, userVars, adapter, now, blocked>>

\* await mongoose.connect(...) resolves: return
ConnectSucceeds ==
    /\ cn.pc = "connect"
    /\ cn' = [cn EXCEPT !.pc = "connected", !.tried = @ + 1]
    /\ UNCHANGED <<sessVars, tokVars, permVars, decision, regVars, userVars, adapter, now, blocked>>

\* await mongoose.connect(...) rejects: attempts--, then throw or start the
\* retry delay
ConnectFails ==
    /\ cn.pc = "connect"
    /\ cn' = IF Exhausted(cn.attempts - 1)
             THEN [cn EXCEPT !.pc = "failed", !.attempts = @ - 1, !.tried = @ + 1]
             ELSE [cn EXCEPT !.pc = "wait", !.attempts = @ - 1, !.tried = @ + 1,
                             !.remaining = cn.delay, !.waits = @ + 1]
    /\ UNCHANGED <<sessVars, tokVars, permVars, decision, regVars, userVars, adapter, now, blocked>>

\* the timer of setTimeout(resolve, DB_RETRY_DELAY) runs down
RetryTimer ==
    /\ cn.pc = "wait"
    /\ cn.remaining > 0
    /\ cn' = [cn EXCEPT !.remaining = @ - 1]
    /\ UNCHANGED <<sessVars, tokVars, permVars, decision, regVars, userVars, adapter, now, blocked>>

\* the delay is over: while (attempts > 0) is tested again
RetryDelayOver ==
    /\ cn.pc = "wait"
    /\ cn.remaining = 0
    /\ cn' = [cn EXCEPT !.pc = IF cn.attempts > 0 THEN "connect" ELSE "returned"]
    /\ UNCHANGED <<sessVars, tokVars, permVars, decision, regVars, userVars, adapter, now, blocked>>

\* ------------------------------------------------------- specifications
SessInit ==
    /\ users = UserIds
    /\ sessions = {}
    /\ nextSid = 1
    /\ vs = [p \in SessCallers |-> IdleCall]
    /\ ret = NoReturn
    /\ eq = NoPair

TokInit ==
    /\ tokens = {}
    /\ nextTok = 1
    /\ tk = [p \in TokCallers |-> IdleTok]
    /\ wins = <<>>

\* the permission check at rest: adapter bound, empty Registry, nothing cached
PermIdle ==
    /\ authAdapter = TRUE
    /\ roles = <<>>
    /\ permissions = {}
    /\ rolePermissionCache = <<>>
    /\ pk = [p \in RaceCallers |-> IdleCheck]

\* the components added after the permission check, at rest
RestIdle ==
    /\ decision = NoDecision
    /\ regUsers = <<>>
    /\ permissionModel = {}
    /\ rc = [p \in RegCallers |-> IdleReg]
    /\ outdated = {}
    /\ UserIdle
    /\ cn = NoConnect
    /\ blocked = NeverBlocked

SessionInit ==
    /\ adapter \in Adapters
    /\ now = 0
    /\ SessInit
    /\ TokInit
    /\ PermIdle
    /\ RestIdle

SessionNext ==
    \/ Tick
    \/ \E u \in UserIds, ttl \in TTLs : createSession(u, ttl)
    \/ \E sid \in SessionIdPool, ttl \in TTLs : updateSessionExpiry(sid, ttl)
    \/ \E sid \in SessionIdPool : destroySession(sid)
    \/ \E u \in UserIds : invalidateAllUserSessions(u)
    \/ deleteExpiredSessions
    \/ \E u \in UserIds : deleteUser(u)
    \/ \E p \in SessCallers, sid \in SessionIds : validateSessionCall(p, sid)
    \/ \E p \in SessCallers : validateSessionStep(p)
    \/ \E p \in SessCallers : validateSessionReturn(p)

SessionSpec == SessionInit /\ [][SessionNext]_vars

EquivInit ==
    /\ adapter = "mongo"
    /\ now = 0
    /\ SessInit
    /\ TokInit
    /\ PermIdle
    /\ RestIdle

EquivNext ==
    \/ Tick
    \/ \E u \in UserIds, ttl \in TTLs : bothCreateSession(u, ttl)
    \/ \E sid \in SessionIdPool, ttl \in TTLs : bothUpdateSessionExpiry(sid, ttl)
    \/ \E sid \in SessionIdPool : bothDestroySession(sid)
    \/ \E u \in UserIds : bothInvalidateAllUserSessions(u)
    \/ bothDeleteExpiredSessions
    \/ \E u \in UserIds : bothGetActiveSessions(u)
    \/ \E sid \in SessionIdPool : bothValidateSession(sid)
    \/ \E u \in UserIds : deleteUser(u)

EquivSpec == EquivInit /\ [][EquivNext]_vars

TokenInit ==
    /\ adapter \in TokenAdapters
    /\ now = 0
    /\ SessInit
    /\ TokInit
    /\ PermIdle
    /\ RestIdle

TokenNext ==
    \/ Tick
    \/ \E u \in TokenUsers, ty \in TokenTypes, ttl \in TTLs : createToken(u, ty, ttl)
    \/ deleteExpiredTokens
    \/ \E p \in TokCallers, tok \in TokenIds, u \in TokenUsers, ty \in TokenTypes :
           validateToken(p, tok, u, ty)
    \/ \E p \in TokCallers, tok \in TokenIds, u \in TokenUsers, ty \in TokenTypes :
           consumeToken(p, tok, u, ty)
    \/ \E p \in TokCallers : tokenStep(p)
    \/ \E p \in TokCallers : tokenReturn(p)

TokenSpec == TokenInit /\ [][TokenNext]_vars

\* the Registry is persistent: the process starts on whatever roles the
\* database holds, with the adapter bound or not
PermInit ==
    /\ adapter = "mongo"
    /\ now = 0
    /\ SessInit
    /\ TokInit
    /\ authAdapter \in BOOLEAN
    /\ \E names \in SUBSET RegistryRoles : roles \in [names -> SUBSET PermIds]
    /\ permissions = {}
    /\ rolePermissionCache = <<>>
    /\ pk = [p \in RaceCallers |-> IdleCheck]
    /\ RestIdle

PermNext ==
    \/ \E newPermission \in PermissionDocs : registerPermission(newPermission)
    \/ \E p \in PermCallers, user \in PermUsers, config \in Configs :
           checkUserPermission(p, user, config)
    \/ \E p \in PermCallers : RoleResolved(p)
    \/ \E p \in PermCallers : RoleLookupFails(p)
    \/ \E p \in PermCallers : checkUserPermissionReturn(p)

PermSpec == PermInit /\ [][PermNext]_vars

DecideInit ==
    /\ adapter = "mongo"
    /\ now = 0
    /\ SessInit
    /\ TokInit
    /\ PermIdle
    /\ RestIdle

DecideNext ==
    \E user \in PermUsers, config \in Configs, userPermissions \in SUBSET PermissionDocs :
        decide(user, config, userPermissions)

DecideSpec == DecideInit /\ [][DecideNext]_vars

\* users being blocked and unblocked beside their sessions and tokens
BlockInit ==
    /\ adapter = "mongo"
    /\ now = 0
    /\ SessInit
    /\ TokInit
    /\ PermIdle
    /\ RestIdle

BlockNext ==
    \/ Tick
    \/ \E u \in UserIds, ttl \in TTLs : createSession(u, ttl)
    \/ \E u \in UserIds, ty \in TokenTypes, ttl \in TTLs : createToken(u, ty, ttl)
    \/ \E u \in UserIds : blockUser(u)
    \/ \E u \in UserIds : unblockUser(u)
    \/ \E p \in SessCallers, sid \in SessionIds : MongoFindSession(p, sid)
    \/ \E p \in SessCallers : MongoCheckSession(p)
    \/ \E p \in SessCallers : MongoDeleteSession(p)
    \/ \E p \in SessCallers : MongoFindUser(p)
    \/ \E p \in SessCallers : validateSessionReturn(p)

BlockSpec == BlockInit /\ [][BlockNext]_vars

\* the admin short-circuits on their own: any set of role documents, any user
ExemptInit ==
    /\ adapter = "mongo"
    /\ now = 0
    /\ SessInit
    /\ TokInit
    /\ authAdapter = TRUE
    /\ \E names \in SUBSET RoleNames : roles = [r \in names |-> {}]
    /\ permissions = {}
    /\ rolePermissionCache = <<>>
    /\ pk = [p \in RaceCallers |-> IdleCheck]
    /\ RestIdle

ExemptNext ==
    \E user \in [role : RoleNames, roles : SUBSET RoleNames, permissions : {{}}] :
        exempt(user)

ExemptSpec == ExemptInit /\ [][ExemptNext]_vars

\* a seeded Registry: admin holds exactly m1, root is an admin, eve an editor
RegistryInit ==
    /\ adapter = "mongo"
    /\ now = 0
    /\ SessInit
    /\ TokInit
    /\ authAdapter = TRUE
    /\ roles = [r \in RegistryRoles |-> IF r = "admin" THEN {"m1"} ELSE {}]
    /\ permissions = {}
    /\ rolePermissionCache = <<>>
    /\ pk = [p \in RaceCallers |-> IdleCheck]
    /\ decision = NoDecision
    /\ regUsers = [u \in RegUserIds |->
                      [roles |-> IF u = "root" THEN {"admin"} ELSE {"editor"},
                       permissions |-> {}]]
    /\ permissionModel = RegistryDocs
    /\ rc = [p \in RegCallers |-> IdleReg]
    /\ outdated = {}
    /\ UserIdle
    /\ cn = NoConnect
    /\ blocked = NeverBlocked

RegistryNext ==
    \/ \E p \in RegCallers, a \in RegPrincipals, n \in RegistryRoles :
           createRole(p, [name |-> n, permissions |-> {}], a)
    \/ \E p \in RegCallers, a \in RegPrincipals :
           updateRole(p, "editor", [permissions |-> {"m1", "m2"}], a)
    \/ \E p \in RegCallers, a \in RegPrincipals, r \in RegistryRoles : deleteRole(p, r, a)
    \/ \E p \in RegCallers, a \in RegPrincipals, d \in RegistryDocs : createPermission(p, d, a)
    \/ \E p \in RegCallers, a \in RegPrincipals :
           updatePermission(p, "m2", [action |-> "read"], a)
    \/ \E p \in RegCallers, a \in RegPrincipals, m \in RegPermIds : deletePermission(p, m, a)
    \/ \E p \in RegCallers, a \in RegPrincipals, r \in RegistryRoles, m \in RegPermIds :
           assignPermissionToRole(p, r, m, a)
    \/ \E p \in RegCallers, a \in RegPrincipals, r \in RegistryRoles, m \in RegPermIds :
           removePermissionFromRole(p, r, m, a)
    \/ \E p \in RegCallers : SecondCheck(p)
    \/ \E p \in RegCallers : RoleExists(p)
    \/ \E p \in RegCallers : PermissionExists(p)
    \/ \E p \in RegCallers : RegistryWrite(p)
    \/ \E p \in RegCallers : registryReturn(p)
    \/ \E r \in RegistryRoles : assignRoleToUser("eve", r)
    \/ \E r \in RegistryRoles : removeRoleFromUser("eve", r)
    \/ \E m \in RegPermIds : assignPermissionToUser("eve", m)
    \/ \E m \in RegPermIds : removePermissionFromUser("eve", m)

RegistrySpec == RegistryInit /\ [][RegistryNext]_vars

\* the Registry at start-up, empty or seeded, with its mutations
InitializeInit ==
    /\ adapter = "mongo"
    /\ now = 0
    /\ SessInit
    /\ TokInit
    /\ authAdapter = TRUE
    /\ \/ roles = <<>> /\ permissionModel = {}
       \/ /\ roles = [r \in RegistryRoles |-> IF r = "admin" THEN {"m1"} ELSE {}]
          /\ permissionModel = RegistryDocs
    /\ permissions = {}
    /\ rolePermissionCache = <<>>
    /\ pk = [p \in RaceCallers |-> IdleCheck]
    /\ decision = NoDecision
    /\ regUsers = [u \in RegUserIds |->
                      [roles |-> IF u = "root" THEN {"admin"} ELSE {"editor"},
                       permissions |-> {}]]
    /\ rc = [p \in RegCallers |-> IdleReg]
    /\ outdated = {}
    /\ UserIdle
    /\ cn = NoConnect
    /\ blocked = NeverBlocked

InitializeNext ==
    \/ \E p \in RegCallers : initializeDefaultRolesAndPermissions(p)
    \/ RegistryNext

InitializeSpec == InitializeInit /\ [][InitializeNext]_vars

\* the permission check beside Registry writes made by an admin: the Registry
\* holds the permissions the queries name, role editor holds none of them
CacheInit ==
    /\ adapter = "mongo"
    /\ now = 0
    /\ SessInit
    /\ TokInit
    /\ authAdapter = TRUE
    /\ roles = [r \in RegistryRoles |-> {}]
    /\ permissions = PermIds
    /\ rolePermissionCache = <<>>
    /\ pk = [p \in RaceCallers |-> IdleCheck]
    /\ decision = NoDecision
    /\ regUsers = [u \in RegUserIds |->
                      [roles |-> IF u = "root" THEN {"admin"} ELSE {"editor"},
                       permissions |-> {}]]
    /\ permissionModel = PermissionDocs
    /\ rc = [p \in RegCallers |-> IdleReg]
    /\ outdated = {}
    /\ UserIdle
    /\ cn = NoConnect
    /\ blocked = NeverBlocked

CacheNext ==
    \/ \E p \in PermCallers, config \in Configs :
           checkUserPermission(p, [role |-> "editor", permissions |-> {}], config)
    \/ \E p \in PermCallers : RoleResolved(p)
    \/ \E p \in PermCallers : checkUserPermissionReturn(p)
    \/ \E p \in RegCallers, m \in PermIds : assignPermissionToRole(p, "editor", m, "root")
    \/ \E p \in RegCallers, m \in PermIds : removePermissionFromRole(p, "editor", m, "root")
    \/ \E p \in RegCallers : updateRole(p, "editor", [permissions |-> PermIds], "root")
    \/ \E p \in RegCallers : deleteRole(p, "editor", "root")
    \/ \E p \in RegCallers : SecondCheck(p)
    \/ \E p \in RegCallers : RoleExists(p)
    \/ \E p \in RegCallers : PermissionExists(p)
    \/ \E p \in RegCallers : RegistryWrite(p)
    \/ \E p \in RegCallers : registryReturn(p)

CacheSpec == CacheInit /\ [][CacheNext]_vars

ConnectInit ==
    /\ adapter = "mongo"
    /\ now = 0
    /\ SessInit
    /\ TokInit
    /\ PermIdle
    /\ RestIdle

ConnectNext ==
    \/ \E n \in 1..MaxAttempts, delay \in 1..MaxDelay : connect(n, delay)
    \/ ConnectSucceeds
    \/ ConnectFails
    \/ RetryTimer
    \/ RetryDelayOver

\* every mongoose.connect call resolves or rejects, and every timer fires
ConnectSpec ==
    /\ ConnectInit
    /\ [][ConnectNext]_vars
    /\ WF_vars(ConnectSucceeds \/ ConnectFails)
    /\ WF_vars(RetryTimer)
    /\ WF_vars(RetryDelayOver)

\* connect called with any attempts argument, zero and negative included
AnyConnectNext ==
    \/ \E n \in -1..MaxAttempts, delay \in 1..MaxDelay : connect(n, delay)
    \/ ConnectSucceeds
    \/ ConnectFails
    \/ RetryTimer
    \/ RetryDelayOver

AnyConnectSpec == ConnectInit /\ [][AnyConnectNext]_vars

\* two callers of the permission check beside Registry writes by an admin
RaceNext ==
    \/ \E p \in RaceCallers, config \in {c \in Configs : c.contextId = "p1" /\ c.action = "read"
                                               /\ c.requiredRole = "none"} :
           checkUserPermission(p, [role |-> "editor", permissions |-> {}], config)
    \/ \E p \in RaceCallers : RoleResolved(p)
    \/ \E p \in RaceCallers : checkUserPermissionReturn(p)
    \/ \E p \in RegCallers, m \in PermIds : assignPermissionToRole(p, "editor", m, "root")
    \/ \E p \in RegCallers, m \in PermIds : removePermissionFromRole(p, "editor", m, "root")
    \/ \E p \in RegCallers : SecondCheck(p)
    \/ \E p \in RegCallers : RoleExists(p)
    \/ \E p \in RegCallers : PermissionExists(p)
    \/ \E p \in RegCallers : RegistryWrite(p)
    \/ \E p \in RegCallers : registryReturn(p)

RaceSpec == CacheInit /\ [][RaceNext]_vars

UserInit ==
    /\ adapter \in UserAdapters
    /\ now = 0
    /\ SessInit
    /\ TokInit
    /\ PermIdle
    /\ RestIdle

UserNext ==
    \/ \E p \in UserCallers, email \in Emails, password \in Passwords \cup {NoPassword} :
           createUser(p, email, password)
    \/ \E p \in UserCallers : insertMany(p)
    \/ \E p \in UserCallers, email \in Emails : addUser(p, email)
    \/ \E p \in UserCallers : userReturn(p)
    \/ \E d \in userDocs, password \in Passwords : updateUserAttributes(d.id, password)
    \/ \E d \in userDocs, password \in Passwords : changePassword(d.id, password)
    \/ \E d \in userDocs, password \in Passwords : updateKeyPassword(d.id, password)
    \/ \E email \in Emails, password \in LoginPasswords : login(email, password)

UserSpec == UserInit /\ [][UserNext]_vars

\* ------------------------------------------------------ session claims

\* C1: a validateSession call whose storage read met a session record that had
\* already expired (expires <= now) answers null (no user, no error); this is
\* stated for the MongoDB adapter, the Drizzle adapter and the Auth class.
C1_ExpiredNeverValidates ==
    \A p \in SessCallers :
        (vs[p].pc = "done" /\ vs[p].late) => vs[p].res = "null"

\* C2: once a validateSession call of the MongoDB or the Drizzle adapter has
\* found the session expired and has answered, the record is no longer in the
\* store and getActiveSessions lists it for no user.
C2_ExpiredRemovedByValidate ==
    \A p \in SessCallers :
        (adapter \in {"mongo", "drizzle"} /\ vs[p].pc = "done" /\ vs[p].expired)
            => /\ FindSession(vs[p].sid) = {}
               /\ \A u \in UserIds : \A s \in getActiveSessions(u) : s.id # vs[p].sid

\* createSession stores expires = now + ttl: a record no updateSessionExpiry
\* has touched still expires at the instant now + ttl of its creation.
StoresNowPlusTtl ==
    \A s \in sessions : ~s.updated => s.expires = s.instant

\* C8 as stated: createSession stores expires = now + ttl, and a
\* validateSession answered before that instant, the record not destroyed and
\* its user existing, answers the user the session was created for.
\* (now < instant implies ttl > 0.)
C8_ValidBeforeInstant ==
    /\ StoresNowPlusTtl
    /\ \A p \in SessCallers :
           (vs[p].pc = "done" /\ vs[p].pre # "none") => vs[p].res = vs[p].pre

\* C8 amended: the same, for a session whose expiry no updateSessionExpiry has
\* changed since createSession.
C8_ValidBeforeInstantUnlessUpdated ==
    /\ StoresNowPlusTtl
    /\ \A p \in SessCallers :
           (vs[p].pc = "done" /\ vs[p].pre # "none" /\ ~vs[p].upd)
               => vs[p].res = vs[p].pre

C8_Witness ==
    \E p \in SessCallers :
        /\ vs[p].pc = "done" /\ vs[p].pre \in UserIds /\ ~vs[p].upd
        /\ vs[p].res = vs[p].pre
        /\ now > 0

\* -------------------------------------------------------- token claims
Consumers == {p \in TokCallers : tk[p].pc = "done" /\ tk[p].op = "consume"}

\* every caller has finished a consumeToken with the same arguments, and at
\* least one of them met the token in the store under exactly these arguments
RaceOver ==
    /\ Consumers = TokCallers
    /\ \A p, q \in TokCallers :
           /\ tk[p].token = tk[q].token
           /\ tk[p].user_id = tk[q].user_id
           /\ tk[p].type = tk[q].type
    /\ \E p \in TokCallers : tk[p].atStart = "match"

\* C3 as stated: of N concurrent consumeToken calls with the token's own
\* string, user and type, exactly one succeeds and every other one reports
\* 'Token does not exist'.
C3_ExactlyOneSucceeds ==
    RaceOver =>
        /\ Cardinality({p \in TokCallers : tk[p].res.ok}) = 1
        /\ \A p \in TokCallers : ~tk[p].res.ok => tk[p].res = NotExist

\* C3 amended: no token is ever obtained by two consumeToken calls; of N
\* concurrent calls with the token's own string, user and type exactly one
\* obtains (removes) the token and reports 'Token is valid' or 'Token is
\* expired', every other one reports 'Token does not exist'; so at most one
\* call succeeds.
C3_ExactlyOneObtains ==
    /\ \A t \in TokenIds : wins[t] <= 1
    /\ \A p \in Consumers :
           /\ tk[p].atStart = "match" => tk[p].doc # {}
           /\ IF tk[p].doc = {}
              THEN tk[p].res = NotExist
              ELSE tk[p].res.message \in {"Token is valid", "Token is expired"}
    /\ RaceOver =>
           /\ Cardinality({p \in TokCallers : tk[p].doc # {}}) = 1
           /\ Cardinality({p \in TokCallers : tk[p].res.ok}) <= 1

C3_Witness ==
    /\ RaceOver
    /\ \E p \in TokCallers :
           /\ tk[p].doc # {}
           /\ tk[p].res = [ok |-> TRUE, message |-> "Token is valid"]
           /\ \A q \in TokCallers \ {p} : tk[q].res = NotExist

\* C4: a token issued with ttl = 0 is reported expired by validateToken;
\* consumeToken reports it expired (not success) and has removed it; every
\* call made once the token is gone reports 'Token does not exist'.
C4_ZeroTtlStillConsumed ==
    \A p \in TokCallers : tk[p].pc = "done" =>
        /\ (tk[p].doc # {} /\ TheDoc(tk[p]).zero) =>
               /\ tk[p].res = [ok |-> FALSE, message |-> "Token is expired"]
               /\ tk[p].op = "consume" => ~\E t \in tokens : t.token = tk[p].token
        /\ tk[p].atStart = "gone" => tk[p].res = NotExist

C4_Witness ==
    \E p, q \in TokCallers :
        /\ tk[p].pc = "done" /\ tk[p].op = "consume"
        /\ tk[p].doc # {} /\ TheDoc(tk[p]).zero
        /\ tk[p].res = [ok |-> FALSE, message |-> "Token is expired"]
        /\ tk[q].pc = "done" /\ tk[q].atStart = "gone" /\ tk[q].token = tk[p].token
        /\ tk[q].res = NotExist

\* C5: consumeToken answers one of exactly three outcomes: 'Token does not
\* exist' when it removed nothing, 'Token is expired' (no success) when the
\* removed record had expires <= now, 'Token is valid' (success) when it had
\* expires > now; the clock is read only once the record is out of the store.
C5_ThreeOutcomes ==
    \A p \in TokCallers : tk[p].op = "consume" =>
        /\ (tk[p].pc \in {"message", "status", "check"})
               => ~\E t \in tokens : t.token = tk[p].token
        /\ tk[p].pc = "done" =>
               tk[p].res = IF tk[p].doc = {} THEN NotExist
                           ELSE IF tk[p].fresh
                                THEN [ok |-> TRUE, message |-> "Token is valid"]
                                ELSE [ok |-> FALSE, message |-> "Token is expired"]

\* C6: validateToken(token, user, type) answers true exactly when the store
\* held a token with this string, user and type whose expires was after the
\* clock read by the call.
C6_ValidateExact ==
    \A p \in TokCallers : (tk[p].pc = "done" /\ tk[p].op = "validate") =>
        tk[p].res.ok = (tk[p].atStart = "match" /\ tk[p].fresh)

\* C6, the frame half: no step of a validateToken call changes the token store.
C6_ValidateReadOnly ==
    [][\A p \in TokCallers :
          (tk'[p] # tk[p] /\ (tk[p].op = "validate" \/ tk'[p].op = "validate"))
              => tokens' = tokens]_vars

\* C7: validateToken and consumeToken called with a token's string and user
\* but another type than the one it was issued with report 'Token does not
\* exist' and obtain nothing, so the token stays in the store.
C7_TypeBound ==
    \A p \in TokCallers : (tk[p].pc = "done" /\ tk[p].atStart = "wrong_type") =>
        /\ tk[p].res = NotExist
        /\ tk[p].doc = {}

\* --------------------------------------------------- permission claims
Finished == {p \in PermCallers : pk[p].pc = "done"}

\* C9: checkUserPermission answers hasPermission = true to every query of a
\* user whose role is 'admin', whatever the Registry holds for the role,
\* whatever the cache holds and whether or not the auth adapter is bound.
C9_AdminAlwaysAllowed ==
    \A p \in Finished : pk[p].user.role = "admin" => pk[p].hasPermission

C9_Witness ==
    \E p \in Finished :
        /\ pk[p].user.role = "admin"
        /\ pk[p].hasPermission
        /\ ~authAdapter
        /\ "admin" \notin DOMAIN roles
        /\ ~\E permission \in PermissionDocs : Matches(permission, TheConfig(pk[p]))

\* the permissions the Registry holds for a role, as documents
RegistryPermissions(role) ==
    IF role \in DOMAIN roles THEN {d \in PermissionDocs : d._id \in roles[role]} ELSE {}

\* C10: for a non-admin user (adapter bound, every permission registered
\* before the call, Registry answering) the check answers hasPermission = true exactly when the role's permission set in the
\* Registry holds a permission with the query's identity and action whose
\* contextType is the query's or 'system'.
C10_RegistryDecides ==
    \A p \in Finished :
        (/\ pk[p].user.role # "admin"
         /\ authAdapter
         /\ pk[p].registered = PermIds
         /\ ~pk[p].failed) =>
            pk[p].hasPermission =
                \E permission \in RegistryPermissions(pk[p].user.role) :
                    Matches(permission, TheConfig(pk[p]))

\* the user's direct grants, as documents
DirectGrants(user) == {d \in PermissionDocs : d._id \in user.permissions}

\* C11: a non-admin user whose own permissions hold a grant matching the
\* query is allowed (adapter bound, Registry answering), also when the role
\* holds no matching permission: the resolved set is role-derived permissions
\* united with the direct grants.
C11_DirectGrantsCount ==
    \A p \in Finished :
        (/\ pk[p].user.role # "admin"
         /\ authAdapter
         /\ ~pk[p].failed
         /\ pk[p].config # {}
         /\ \E permission \in DirectGrants(pk[p].user) :
                Matches(permission, TheConfig(pk[p]))) =>
            pk[p].hasPermission

\* a grant with exactly the query's identity, action and contextType
ExactGrant(permission, config) ==
    /\ permission._id = config.contextId
    /\ permission.action = config.action
    /\ permission.contextType = config.contextType

\* C12: when the acting user's role equals the query's requiredRole and the
\* resolved permission set holds no grant with the query's identity, action
\* and contextType, the decision is hasPermission = false, whatever else the
\* set holds (a 'system'-scoped permission of the same identity included).
C12_SelfLockoutDenied ==
    (/\ decision.state = "done"
     /\ decision.user.role = decision.config.requiredRole
     /\ ~\E permission \in decision.userPermissions :
            ExactGrant(permission, decision.config))
        => ~decision.hasPermission

C12_Witness ==
    /\ decision.state = "done"
    /\ decision.user.role = decision.config.requiredRole
    /\ ~\E permission \in decision.userPermissions :
           ExactGrant(permission, decision.config)
    /\ \E permission \in decision.userPermissions :
           Matches(permission, decision.config)
    /\ ~decision.hasPermission

\* C15: a checkUserPermission call whose Registry lookup (getRoleByName)
\* raised never returns a decision to its caller: the failure is raised, not
\* turned into an allow or a deny. (pc = "done" is a normal return of
\* { hasPermission, isRateLimited }.)
C15_LookupFailureRaised ==
    \A p \in PermCallers : pk[p].pc = "done" => ~pk[p].failed

\* ----------------------------------------------------- Registry claims
Returned == {p \in RegCallers : rc[p].pc = "done"}

\* C13: removePermissionFromRole(R, perm) called by a user whose role is R,
\* while R holds exactly perm, is denied and leaves R holding exactly perm.
C13_SelfRevokeDenied ==
    \A p \in Returned : rc[p].selfRevoke =>
        /\ rc[p].outcome # "ok"
        /\ rc[p].role \in DOMAIN roles
        /\ roles[rc[p].role] = {rc[p].permission}

\* C16: a role or permission mutation whose acting principal lacked the
\* capability tested (unknown principals included) ends with Unauthorized
\* and has written nothing to the role and permission records.
C16_UnauthorizedChangesNothing ==
    \A p \in RegCallers : rc[p].lacked =>
        /\ rc[p].pc = "done"
        /\ rc[p].outcome = Unauthorized
        /\ ~rc[p].wrote

C16_Witness ==
    \E p \in Returned :
        /\ rc[p].op = "assignPermissionToRole"
        /\ rc[p].actor = "eve"
        /\ HoldsCapability("eve", "manage_roles")
        /\ rc[p].lacked
        /\ rc[p].outcome = Unauthorized

SomeManager ==
    \E a \in DOMAIN regUsers :
        HoldsCapability(a, "manage_roles") \/ HoldsCapability(a, "manage_permissions")

\* C17: a user gains a role or a direct permission only through a principal
\* holding a management capability; in particular, while no principal holds
\* one, no step adds a role or a direct permission to any user.
C17_GrantsNeedManager ==
    [][(\E u \in DOMAIN regUsers :
            \/ ~(regUsers'[u].roles \subseteq regUsers[u].roles)
            \/ ~(regUsers'[u].permissions \subseteq regUsers[u].permissions))
        => SomeManager]_vars

RolePermissionIds(role_id) == {d._id : d \in getPermissionsForRole(role_id)}

\* C18: after an assignPermissionToRole(r, p) that succeeded,
\* getPermissionsForRole(r) includes p; after a removePermissionFromRole(r, p)
\* that succeeded it excludes p; the write of either leaves the permission
\* set of every other role as it was.
C18_AssignRemoveRoundTrip ==
    /\ [](\A p \in Returned : rc[p].outcome = "ok" =>
             /\ rc[p].op = "assignPermissionToRole"
                    => rc[p].permission \in RolePermissionIds(rc[p].role)
             /\ rc[p].op = "removePermissionFromRole"
                    => rc[p].permission \notin RolePermissionIds(rc[p].role))
    /\ [][\A p \in RegCallers :
              (/\ rc[p].pc = "write"
               /\ rc'[p].pc = "done"
               /\ rc[p].op \in {"assignPermissionToRole", "removePermissionFromRole"})
                  => \A r \in DOMAIN roles \ {rc[p].role} :
                         r \in DOMAIN roles' /\ roles'[r] = roles[r]]_vars

C18_Witness ==
    \E p \in Returned :
        /\ rc[p].op = "assignPermissionToRole"
        /\ rc[p].outcome = "ok"
        /\ rc[p].role = "editor"
        /\ rc[p].permission \in RolePermissionIds("editor")
        /\ "admin" \in DOMAIN roles /\ roles["admin"] = {"m1"}

\* C14: a checkUserPermission call made for a role after a Registry write
\* that changed the role's permissions has completed answers from the
\* permissions the Registry holds for the role at the call, also when the
\* role's cache entry was made before that write.
C14_CacheReflectsWrites ==
    \A p \in Finished :
        (pk[p].stale /\ ~pk[p].failed) => pk[p].hasPermission = pk[p].expected

\* --------------------------------------------------------- user claims
\* C19: createUser with the email of a stored user fails with a duplicate
\* key error and changes no stored record; of concurrent createUser calls for
\* one email at most one succeeds; no two user records share an email.
C19_EmailUnique ==
    /\ [](/\ \A d1, d2 \in userDocs : d1.email = d2.email => d1 = d2
          /\ \A p \in UserCallers : uc[p].dup => uc[p].outcome = "duplicate key"
          /\ \A p, q \in UserCallers :
                 (/\ p # q
                  /\ uc[p].pc = "done" /\ uc[q].pc = "done"
                  /\ uc[p].email = uc[q].email)
                     => ~(uc[p].outcome = "ok" /\ uc[q].outcome = "ok"))
    /\ [][\A p \in UserCallers :
              (uc'[p].pc = "done" /\ uc[p].pc # "done" /\ uc'[p].outcome # "ok")
                  => userDocs' = userDocs]_vars

C19_Witness ==
    \E p, q \in UserCallers :
        /\ p # q
        /\ uc[p].pc = "done" /\ uc[p].op = "createUser" /\ uc[p].outcome = "ok"
        /\ uc[q].pc = "done" /\ uc[q].op = "createUser" /\ uc[q].email = uc[p].email
        /\ uc[q].overlap /\ uc[q].dup /\ uc[q].outcome = "duplicate key"
        /\ Cardinality({d \in userDocs : d.email = uc[p].email}) = 1

IsHash(x) == \E password \in Passwords : x = hash(password)

\* C20: every stored password is absent or a hash of a supplied password,
\* never the plaintext.
C20_PasswordsHashed ==
    \A d \in userDocs : d.password = NoPassword \/ IsHash(d.password)

\* C21: login answers null, without raising, both for an email that has no
\* user record and for a user given a password that is not theirs.
C21_LoginFailuresAlike ==
    (lg.state = "done" /\ (~lg.found \/ lg.wrong)) => lg.res = "null"

\* ------------------------------------------------ session claims (2)
\* C22: the step that deletes a user leaves no session and no token of that
\* user in the stores.
C22_DeleteUserCascades ==
    [][\A u \in users \ users' :
           /\ \A s \in sessions' : s.user_id # u
           /\ \A t \in tokens' : t.user_id # u]_vars

\* C24: destroySession and invalidateAllUserSessions raise nothing, and a
\* call repeated, or made where no session record matches, leaves the store
\* as it was.
C24_DestroyIdempotent ==
    ret.op \in {"destroySession", "invalidateAllUserSessions"} =>
        /\ ret.res = Void
        /\ (ret.again \/ ret.missing) => ret.unchanged

C24_Witness ==
    /\ ret.op \in {"destroySession", "invalidateAllUserSessions"}
    /\ ret.again /\ ret.missing /\ ret.unchanged
    /\ ret.res = Void
    /\ nextSid > 1

\* C25: updateSessionExpiry on a session that is not Valid (absent or
\* expired) fails, returning no session, and leaves the store as it was.
C25_UpdateOnlyValid ==
    (ret.op = "updateSessionExpiry" /\ ~ret.valid) =>
        /\ ret.res.kind # "session"
        /\ ret.unchanged

\* C26: validateSession answers null, without raising, when the session id
\* has no record and when the record's user_id resolves to no user.
C26_MissIsNull ==
    \A p \in SessCallers :
        (vs[p].pc = "done" /\ (vs[p].session = {} \/ vs[p].nouser)) => vs[p].res = "null"

\* C27: the user value a successful validateSession returns carries no
\* password field.
C27_NoPasswordReturned ==
    \A p \in SessCallers :
        (vs[p].pc = "done" /\ vs[p].res \in UserIds) => "password" \notin vs[p].fields

\* C28: a session record keeps the user it was created for, and
\* validateSession returns null or that user.
C28_SingleOwner ==
    /\ \A s \in sessions : s.user_id = s.owner
    /\ \A p \in SessCallers :
           (vs[p].pc = "done" /\ vs[p].res \in UserIds) =>
               \E s \in vs[p].session : vs[p].res = s.owner

C28_Witness ==
    \E p \in SessCallers :
        /\ vs[p].pc = "done"
        /\ vs[p].res \in UserIds
        /\ \E s \in vs[p].session : s.updated /\ s.owner = vs[p].res

\* C30: served the same calls, the MongoDB adapter and the Drizzle adapter
\* return the same result at every step.
C30_AdaptersAgree ==
    eq.rm = eq.rd

\* ------------------------------------------------------ connect claims
\* C23: connect(n), n >= 1, ends: connected or failed.  It calls
\* mongoose.connect at most n times, waits only between two attempts, is
\* connected right after the first success, and fails right after the n-th
\* failure with no further wait.
C23_ConnectBounded ==
    /\ [](/\ cn.tried <= cn.n
          /\ cn.pc \in {"idle", "connect", "wait", "connected", "failed"}
          /\ cn.pc \in {"connect", "wait"} => (cn.waits = cn.tried /\ cn.tried < cn.n)
          /\ cn.pc = "connected" => cn.waits = cn.tried - 1
          /\ cn.pc = "failed" => (cn.tried = cn.n /\ cn.waits = cn.n - 1))
    /\ (cn.pc = "connect" ~> cn.pc \in {"connected", "failed"})

C23_Witness ==
    /\ cn.pc = "failed"
    /\ cn.n = 3
    /\ cn.tried = 3
    /\ cn.waits = 2

C36_StatusMatchesMessage ==
    \A p \in TokCallers :
        (adapter = "mongo" /\ tk[p].pc = "done" /\ tk[p].op \in {"validate", "consume"})
            => (tk[p].res.ok <=> tk[p].res.message = "Token is valid")

\* C34: the MongoDB validateSession never deletes a session that is not
\* expired at the moment of the deletion: when an update extends the session
\* between the call's read and its delete, the session survives.
C34_DeletesOnlyExpired ==
    [][\A p \in SessCallers :
          (adapter = "mongo" /\ vs[p].pc = "delete" /\ vs'[p].pc = "done")
              => \A s \in sessions \ sessions' : Expired(s, now)]_vars

\* C38: the self-lockout guard never turns an allow into a deny: whenever
\* checkForSelfLockout answers true for a decision, no permission of the
\* resolved set matches the query, a 'system'-scoped permission with the
\* query's identity and action included.
C38_GuardNeverDeniesAllow ==
    (/\ decision.state = "done"
     /\ checkForSelfLockout(decision.user, decision.config, decision.userPermissions))
        => ~\E permission \in decision.userPermissions :
               Matches(permission, decision.config)

\* C40: login answers null, without raising, for an existing user stored
\* with no password, exactly as it does for an email no user has.
C40_NoPasswordIsNull ==
    (lg.state = "done" /\ (lg.nopass \/ ~lg.found)) => lg.res = "null"

\* C33: deleteExpiredSessions removes exactly the sessions whose expires is
\* at or before the current time, leaves the active ones, and returns the
\* number it removed; every stored session is either active or removable,
\* never both.
C33_SweepExact ==
    [][/\ \A s \in sessions : Unexpired(s, now) # Expired(s, now)
       /\ (ret'.op = "deleteExpiredSessions" /\ ret' # ret)
             => /\ sessions' = {s \in sessions : Unexpired(s, now)}
                /\ ret'.res = Count(Cardinality({s \in sessions : Expired(s, now)}))]_vars

\* C37: connect returns normally only after a mongoose.connect attempt that
\* succeeded, for every value of attempts, zero and negative included; in
\* every other case it raises.
C37_ReturnsOnlyConnected ==
    cn.pc \in {"connected", "returned"} => (cn.pc = "connected" /\ cn.tried >= 1)

\* C32: the three admin short-circuits exempt the same principals: for a
\* user whose role list names its role, with that role's document in the
\* Registry, the bypass of permissionCheck (user.role === 'admin'), of the
\* adapter (a role whose lower-cased name is 'admin') and of the config page
\* load (lower-cased role is 'admin') give the same answer.
C32_BypassesAgree ==
    (/\ decision.state = "exempt"
     /\ decision.user.roles = {decision.user.role}
     /\ decision.user.role \in DOMAIN roles)
        => /\ decision.permissionCheck = decision.authAdapter
           /\ decision.authAdapter = decision.load

\* C35: on a Registry with no role and no permission
\* initializeDefaultRolesAndPermissions completes without error and leaves
\* the four default roles and the six default permissions, every default
\* permission assigned to admin; on any other Registry it changes nothing.
C35_InitializeDefaults ==
    [][\A p \in RegCallers :
          (rc[p].pc = "idle" /\ rc'[p].op = "initializeDefaultRolesAndPermissions")
              => IF DOMAIN roles = {} /\ permissionModel = {}
                 THEN /\ rc'[p].outcome = "ok"
                      /\ DOMAIN roles' = defaultRoles
                      /\ permissionModel' = defaultPermissions
                      /\ roles'["admin"] = {d._id : d \in defaultPermissions}
                 ELSE /\ roles' = roles
                      /\ permissionModel' = permissionModel]_vars

\* C31: Expired and Destroyed are terminal: once validateSession has answered
\* null for a session id whose record was expired, every later
\* validateSession for that id answers null too, whatever ran in between,
\* updateSessionExpiry included.
C31_ExpiredIsTerminal ==
    \A p \in SessCallers :
        (vs[p].pc = "done" /\ \E s \in vs[p].session : s.nulled) => vs[p].res = "null"

====
